---------------------------- MODULE Spec2Model ----------------------------
(***************************************************************************)
(* PRGuardian: the diff-position indexer (parse_diff_to_positions), the    *)
(* finding translator (map_ai_response_to_github_format) and the review    *)
(* workflow (post_bulk_review) of src/src/app.py.                          *)
(*                                                                         *)
(* Diff lines, paths, severities and comment bodies are TLA+ strings; the  *)
(* string operations of the code (startswith, split, int, upper, slicing)  *)
(* are computed character by character.                                    *)
(***************************************************************************)
EXTENDS Integers, Sequences, FiniteSets, TLC

VARIABLES
    pc,              \* control point of the running function
    exc,             \* "" or the function an exception was raised in
    line,            \* loop variable of parse_diff_to_positions (app.py:22)
    n,               \* number of diff lines the parse loop has consumed
    positions_map,   \* app.py:17
    current_file,    \* app.py:18; <<>> is None, <<p>> is the path p
    diff_position,   \* app.py:19
    start_line,      \* app.py:20
    log,             \* history: the latest assignments made at app.py:56
    section,         \* history: <<p>> when the latest file header names p
    headed,          \* history: paths that a file header read so far names
    hunked,          \* history: paths in whose section a hunk header was read
    hunk,            \* history: <<>> or the hunk in progress [s, j, k]
    diff_text,       \* post_bulk_review: the fetched diff (app.py:142)
    ai_suggestions,  \* post_bulk_review: the findings passed in
    issue_idx,       \* number of findings the translation loop has consumed
    github_comments, \* app.py:78
    commits,         \* app.py:155
    reviews,         \* number of create_review calls made (app.py:162)
    audit_result     \* run_pr_audit's return value; <<>> before it returns

parser_vars == <<line, n, positions_map, current_file, diff_position,
                 start_line, log, section, headed, hunked, hunk>>
review_vars == <<diff_text, ai_suggestions, issue_idx, github_comments,
                 commits, reviews, audit_result>>
vars == <<pc, exc, parser_vars, review_vars>>

---------------------------------------------------------------------------
(* Bounds of the model.                                                    *)

MaxLines == 7

MaxFindings == 2

---------------------------------------------------------------------------
(* Python string operations.                                               *)

\* str.startswith
StartsWith(s, p) == Len(s) >= Len(p) /\ SubSeq(s, 1, Len(p)) = p

\* Index of the first occurrence of sep in s at or after i; 0 when absent.
RECURSIVE Find(_, _, _)
Find(s, sep, i) ==
    IF i + Len(sep) - 1 > Len(s) THEN 0
    ELSE IF SubSeq(s, i, i + Len(sep) - 1) = sep THEN i
    ELSE Find(s, sep, i + 1)

\* str.split(sep) with an explicit separator: empty fields are kept.
RECURSIVE Split(_, _)
Split(s, sep) ==
    LET i == Find(s, sep, 1) IN
    IF i = 0 THEN <<s>>
    ELSE <<SubSeq(s, 1, i - 1)>> \o Split(SubSeq(s, i + Len(sep), Len(s)), sep)

\* s[1:]
DropFirst(s) == SubSeq(s, 2, Len(s))

\* s[0] of a non-empty string
FirstChar(s) == SubSeq(s, 1, 1)

Digits == {"0", "1", "2", "3", "4", "5", "6", "7", "8", "9"}

DigitVal(c) ==
    CASE c = "0" -> 0 [] c = "1" -> 1 [] c = "2" -> 2 [] c = "3" -> 3
      [] c = "4" -> 4 [] c = "5" -> 5 [] c = "6" -> 6 [] c = "7" -> 7
      [] c = "8" -> 8 [] c = "9" -> 9

IsDigits(s) ==
    Len(s) >= 1 /\ \A i \in 1..Len(s) : SubSeq(s, i, i) \in Digits

RECURSIVE DigitsVal(_)
DigitsVal(s) ==
    IF s = "" THEN 0
    ELSE 10 * DigitsVal(SubSeq(s, 1, Len(s) - 1)) + DigitVal(SubSeq(s, Len(s), Len(s)))

\* int(s): an optional sign followed by decimal digits; anything else is a
\* ValueError (ok = FALSE).
PyInt(s) ==
    LET signed == Len(s) >= 1 /\ FirstChar(s) \in {"+", "-"}
        body   == IF signed THEN DropFirst(s) ELSE s
    IN  IF ~IsDigits(body) THEN [ok |-> FALSE, val |-> 0]
        ELSE [ok |-> TRUE,
              val |-> IF signed /\ FirstChar(s) = "-" THEN 0 - DigitsVal(body)
                      ELSE DigitsVal(body)]

---------------------------------------------------------------------------
(* Python dicts as functions.                                              *)

EmptyDict == [k \in {} |-> 0]

\* d[k] = v
DictSet(d, k, v) == [x \in (DOMAIN d) \cup {k} |-> IF x = k THEN v ELSE d[x]]

---------------------------------------------------------------------------
(* parse_diff_to_positions: one iteration of the loop over the diff lines. *)
(* A parser state is the record of the function's locals; raised is TRUE   *)
(* once an exception has left the function, and assigned holds the         *)
(* assignment this iteration made at app.py:56 (<<>> when it made none).   *)

ParserInit ==
    [positions_map |-> EmptyDict, current_file |-> <<>>, diff_position |-> 0,
     start_line |-> 0, raised |-> FALSE, assigned |-> <<>>]

\* Variant of RegisterFile: the 'b/' prefix is kept in the key.
RegisterFileMutant(pm, path) == DictSet(pm, "b/" \o path, EmptyDict)
\* `positions_map[current_file] = {}` (app.py:29)
RegisterFile(pm, path) == DictSet(pm, path, EmptyDict)

\* The branch for a line that starts with 'diff --git' (app.py:24-32).
OnFileHeader(st, l) ==
    LET parts == Split(l, " b/") IN
    [st EXCEPT
        !.current_file  = IF Len(parts) = 2 THEN <<parts[2]>> ELSE @,
        !.positions_map = IF Len(parts) = 2 THEN RegisterFile(@, parts[2]) ELSE @,
        !.diff_position = 0,
        !.start_line    = 0]

\* The position counter after a hunk header (app.py:42).
HunkPosition(pos) == 0

\* The branch for a line that starts with '@@' (app.py:35-43).
OnHunkHeader(st, l) ==
    LET parts == Split(l, " ") IN
    IF Len(parts) >= 3
    THEN LET new_range == parts[3]
             r == PyInt(DropFirst(Split(new_range, ",")[1]))
         IN  IF r.ok
             THEN [st EXCEPT !.start_line = r.val,
                             !.diff_position = HunkPosition(@)]
             ELSE [st EXCEPT !.raised = TRUE]
    ELSE [st EXCEPT !.diff_position = HunkPosition(@)]

\* `line and line[0] in ['+', '-', ' ']` (app.py:50)
IsCounted(l) == l # "" /\ FirstChar(l) \in {"+", "-", " "}

\* Variant of IsRecorded: deleted lines are recorded too.
IsRecordedMutant(l) == FirstChar(l) \in {"+", "-", " "}

\* `line[0] in ['+', ' ']` (app.py:54)
IsRecorded(l) == FirstChar(l) \in {"+", " "}

\* Variant of CountLine: deleted lines consume no position.
CountLineMutant(pos, l) == IF FirstChar(l) = "-" THEN pos ELSE pos + 1

\* The position counter after a counted line (app.py:51).
CountLine(pos, l) == pos + 1

\* The rest of the loop body (app.py:46-57).
OnBodyLine(st, l) ==
    IF st.current_file = <<>> THEN st
    ELSE IF ~IsCounted(l) THEN st
    ELSE LET pos == CountLine(st.diff_position, l)
             f   == st.current_file[1]
         IN  IF IsRecorded(l)
             THEN [st EXCEPT
                      !.diff_position = pos,
                      !.positions_map =
                          DictSet(@, f, DictSet(@[f], st.start_line, pos)),
                      !.start_line = @ + 1,
                      !.assigned =
                          <<[file |-> f, line |-> st.start_line, pos |-> pos]>>]
             ELSE [st EXCEPT !.diff_position = pos]

\* One iteration of `for line in diff_text.split('\n')` (app.py:22-57).
ParseLine(st, l) ==
    LET s == [st EXCEPT !.assigned = <<>>] IN
    IF StartsWith(l, "diff --git") THEN OnFileHeader(s, l)
    ELSE IF StartsWith(l, "@@") THEN OnHunkHeader(s, l)
    ELSE OnBodyLine(s, l)

RECURSIVE ParseLines(_, _)
ParseLines(st, ls) ==
    IF ls = <<>> \/ st.raised THEN st
    ELSE ParseLines(ParseLine(st, Head(ls)), Tail(ls))

\* The whole function (app.py:4-59).
parse_diff_to_positions(text) == ParseLines(ParserInit, Split(text, "\n"))

---------------------------------------------------------------------------
(* The diff lines the parse loop is fed, and what each of them is in a     *)
(* unified diff (stated here, independently of how the code reads them).   *)

HeaderF   == "diff --git a/f.py b/f.py"
HeaderG   == "diff --git a/g.py b/g.py"
HeaderBad == "diff --git a/f.py"
Hunk1     == "@@ -1,2 +1,3 @@"
Hunk5     == "@@ -5,10 +5,11 @@ import os"
HunkShort == "@@"
HunkBad   == "@@ -1 +x @@"
Added     == "+new"
Deleted   == "-old"
Context   == " same"
IndexLine == "index 1234567..abcdefg 100644"

DiffLines ==
    {HeaderF, HeaderG, HeaderBad, Hunk1, Hunk5, HunkShort, HunkBad,
     Added, Deleted, Context, IndexLine}

\* The post-image path a file header names.
HeaderPath == (HeaderF :> "f.py") @@ (HeaderG :> "g.py")

\* The new-file start a hunk header declares.
DeclaredStart == (Hunk1 :> 1) @@ (Hunk5 :> 5)

IsFileHeaderLine(l) == l \in {HeaderF, HeaderG, HeaderBad}
IsHunkHeaderLine(l) == l \in {Hunk1, Hunk5, HunkShort, HunkBad}

---------------------------------------------------------------------------
(* History of the parse, kept beside the program's state.                  *)

SectionAfter(l) ==
    IF IsFileHeaderLine(l)
    THEN (IF l \in DOMAIN HeaderPath THEN <<HeaderPath[l]>> ELSE <<>>)
    ELSE section

HeadedAfter(l) ==
    IF l \in DOMAIN HeaderPath THEN headed \cup {HeaderPath[l]} ELSE headed

HunkedAfter(l) ==
    IF IsHunkHeaderLine(l) /\ l \in DOMAIN DeclaredStart /\ section # <<>>
    THEN hunked \cup {section[1]}
    ELSE hunked

HunkAfter(l) ==
    IF IsFileHeaderLine(l) THEN <<>>
    ELSE IF IsHunkHeaderLine(l)
    THEN (IF l \in DOMAIN DeclaredStart
          THEN <<[s |-> DeclaredStart[l], j |-> 0, k |-> 0]>>
          ELSE <<>>)
    ELSE IF hunk # <<>> /\ l # "" /\ FirstChar(l) \in {"+", "-", " "}
    THEN <<[hunk[1] EXCEPT
              !.k = @ + 1,
              !.j = IF FirstChar(l) = "-" THEN @ ELSE @ + 1]>>
    ELSE hunk

\* The log keeps the last two assignments made since the latest file header,
\* each with whether a hunk with a declared start was in progress.
LogAfter(assigned, l) ==
    IF IsFileHeaderLine(l) THEN <<>>
    ELSE IF assigned = <<>> THEN log
    ELSE LET e == [file |-> assigned[1].file, line |-> assigned[1].line,
                   pos |-> assigned[1].pos, hk |-> hunk # <<>>]
         IN  IF log = <<>> THEN <<e>> ELSE <<log[Len(log)], e>>

---------------------------------------------------------------------------
(* Specification Spec: parse_diff_to_positions on every diff of at most    *)
(* MaxLines lines over DiffLines, one loop iteration per step.             *)

ParserState ==
    [positions_map |-> positions_map, current_file |-> current_file,
     diff_position |-> diff_position, start_line |-> start_line,
     raised |-> FALSE, assigned |-> <<>>]

ReviewIdle ==
    /\ diff_text = ""
    /\ ai_suggestions = <<>>
    /\ issue_idx = 0
    /\ github_comments = <<>>
    /\ commits = <<>>
    /\ reviews = 0
    /\ audit_result = <<>>

ParserIdle ==
    /\ line = ""
    /\ n = 0
    /\ positions_map = EmptyDict
    /\ current_file = <<>>
    /\ diff_position = 0
    /\ start_line = 0
    /\ log = <<>>
    /\ section = <<>>
    /\ headed = {}
    /\ hunked = {}
    /\ hunk = <<>>

Init ==
    /\ pc = "parse"
    /\ exc = ""
    /\ ParserIdle
    /\ ReviewIdle

\* The loop reads the next line of the diff and runs its body on it.
ParseStep ==
    /\ pc = "parse"
    /\ n < MaxLines
    /\ \E l \in DiffLines :
         LET st == ParseLine(ParserState, l) IN
         /\ line' = l
         /\ n' = n + 1
         /\ pc' = IF st.raised THEN "raised" ELSE "parse"
         /\ exc' = IF st.raised THEN "parse_diff_to_positions" ELSE exc
         /\ positions_map' = st.positions_map
         /\ current_file' = st.current_file
         /\ diff_position' = st.diff_position
         /\ start_line' = st.start_line
         /\ log' = LogAfter(st.assigned, l)
         /\ section' = SectionAfter(l)
         /\ headed' = HeadedAfter(l)
         /\ hunked' = HunkedAfter(l)
         /\ hunk' = HunkAfter(l)
    /\ UNCHANGED review_vars

\* The diff ends: `return positions_map` (app.py:59).
ParseReturn ==
    /\ pc = "parse"
    /\ pc' = "returned"
    /\ UNCHANGED <<exc, parser_vars, review_vars>>

Next == ParseStep \/ ParseReturn

Spec == Init /\ [][Next]_vars

---------------------------------------------------------------------------
(* Python values of a finding's fields: a string, an integer or None.      *)

NoneVal == [t |-> "none"]
StrVal(s) == [t |-> "str", v |-> s]
IntVal(i) == [t |-> "int", v |-> i]

\* dict.get(key, default)
Get(d, key, default) == IF key \in DOMAIN d THEN d[key] ELSE default

LowerLetters == "abcdefghijklmnopqrstuvwxyz"
UpperLetters == "ABCDEFGHIJKLMNOPQRSTUVWXYZ"

UpperChar(c) ==
    LET i == Find(LowerLetters, c, 1) IN
    IF i = 0 THEN c ELSE SubSeq(UpperLetters, i, i)

\* Variant of PyUpper: the severity is left as given.
PyUpperMutant(s) == s

\* str.upper
RECURSIVE PyUpper(_)
PyUpper(s) == IF s = "" THEN "" ELSE UpperChar(Head(s)) \o PyUpper(Tail(s))

\* A value as an f-string renders it.
PyStr(val) == IF val.t = "none" THEN "None" ELSE val.v

\* `file_path not in diff_positions_map` (app.py:87), negated
FileInDiff(file_path, pm) == file_path.t = "str" /\ file_path.v \in DOMAIN pm

\* `line_number not in diff_positions_map[file_path]` (app.py:92), negated
LineInDiff(line_number, inner) ==
    line_number.t = "int" /\ line_number.v \in DOMAIN inner

\* f"**[{severity}]** {comment}" (app.py:101)
CommentBody(severity, comment) == "**[" \o severity \o "]** " \o PyStr(comment)

\* Variant of AppendComment: a second comment at the same place is dropped.
AppendCommentMutant(out, c) ==
    IF \E i \in 1..Len(out) : out[i].path = c.path /\ out[i].position = c.position
    THEN out ELSE Append(out, c)

\* github_comments.append({...}) (app.py:104-108)
AppendComment(out, c) == Append(out, c)

\* One iteration of `for issue in ai_response_json` (app.py:80-108): the
\* comment list after it, or raised = TRUE when an exception left the loop.
MapIssue(out, issue, pm) ==
    LET file_path   == Get(issue, "file_path", NoneVal)
        line_number == Get(issue, "line_number", NoneVal)
        severity    == Get(issue, "severity", StrVal("info"))
        comment     == Get(issue, "comment", StrVal(""))
    IN  IF severity.t # "str" THEN [raised |-> TRUE, out |-> out]
        ELSE IF ~FileInDiff(file_path, pm) THEN [raised |-> FALSE, out |-> out]
        ELSE IF ~LineInDiff(line_number, pm[file_path.v])
        THEN [raised |-> FALSE, out |-> out]
        ELSE [raised |-> FALSE,
              out |-> AppendComment(out,
                         [path     |-> file_path.v,
                          position |-> pm[file_path.v][line_number.v],
                          body     |-> CommentBody(PyUpper(severity.v), comment)])]

---------------------------------------------------------------------------
(* The findings the workflow is run on.                                    *)

FindingPlaces ==
    {<<"src/config.py", 8>>, <<"src/config.py", 9>>,
     <<"src/config.py", 4>>, <<"missing.py", 8>>}

Findings ==
    UNION {
      {[file_path |-> StrVal(p[1]), line_number |-> IntVal(p[2]),
        severity |-> StrVal("error"), comment |-> StrVal("x")],
       [file_path |-> StrVal(p[1]), line_number |-> IntVal(p[2]),
        severity |-> NoneVal, comment |-> StrVal("x")],
       [file_path |-> StrVal(p[1]), line_number |-> IntVal(p[2])]}
      : p \in FindingPlaces }

FindingLists == UNION {[1..k -> Findings] : k \in 0..MaxFindings}

\* What pr.get_commits() may return.
CommitLists == {<<>>, <<"sha1">>, <<"sha1", "sha2">>}

---------------------------------------------------------------------------
(* The diff texts the review workflow is run on.                           *)

\* sample_diff of test_complete_workflow (integration.py:141-158)
SampleDiff ==
    "diff --git a/src/config.py b/src/config.py\n"
    \o "index 1234567..abcdefg 100644\n"
    \o "--- a/src/config.py\n"
    \o "+++ b/src/config.py\n"
    \o "@@ -5,10 +5,11 @@ import os\n"
    \o " # Configuration file\n"
    \o " MAX_RETRIES = 3\n"
    \o " TIMEOUT = 30\n"
    \o "-DEBUG = True\n"
    \o "+DEBUG = False\n"
    \o " \n"
    \o " def load_config():\n"
    \o "     \"\"\"Load configuration from environment.\"\"\"\n"
    \o "+    print(\"Loading config...\")\n"
    \o "     return {\n"
    \o "         \"max_retries\": MAX_RETRIES,\n"
    \o "         \"timeout\": TIMEOUT,\n"

\* sample_diff of test_vj_mapping.py:9-25
SampleDiffVJ ==
    "diff --git a/src/config.py b/src/config.py\n"
    \o "index 1234567..abcdefg 100644\n"
    \o "--- a/src/config.py\n"
    \o "+++ b/src/config.py\n"
    \o "@@ -5,10 +5,11 @@ import os\n"
    \o " # Configuration file\n"
    \o " MAX_RETRIES = 3\n"
    \o " TIMEOUT = 30\n"
    \o "-DEBUG = True\n"
    \o "+DEBUG = False\n"
    \o " \n"
    \o " def load_config():\n"
    \o "-    x = 1\n"
    \o "+    print(\"Loading config...\")\n"
    \o "     return {\n"
    \o "         \"max_retries\": MAX_RETRIES,\n"
    \o "         \"timeout\": TIMEOUT,"

\* A diff whose hunk header carries no number in its new-file field.
BadHunkDiff ==
    "diff --git a/src/config.py b/src/config.py\n"
    \o "@@ -1 +x @@\n"
    \o "+DEBUG = False"

\* The body of an error response of the hosting API.
NotFoundBody == "{\"message\": \"Not Found\"}"

ReviewDiffs == {"", SampleDiff, SampleDiffVJ, BadHunkDiff, NotFoundBody}

---------------------------------------------------------------------------
(* Specification SpecReview: run_pr_audit calling post_bulk_review         *)
(* (integration.py:26-39, app.py:113-169) on the findings of FindingLists  *)
(* and a diff of ReviewDiffs.                                              *)

InitReview ==
    /\ pc = "connect"
    /\ exc = ""
    /\ ParserIdle
    /\ diff_text = ""
    /\ ai_suggestions \in FindingLists
    /\ issue_idx = 0
    /\ github_comments = <<>>
    /\ commits = <<>>
    /\ reviews = 0
    /\ audit_result = <<>>

\* Github(...), get_repo, get_pull and the first diff lookup (app.py:124-132).
Connect ==
    /\ pc = "connect"
    /\ pc' = "fetch"
    /\ UNCHANGED <<exc, parser_vars, review_vars>>

\* requests.get(...).text (app.py:135-142).
FetchDiff ==
    /\ pc = "fetch"
    /\ \E d \in ReviewDiffs : diff_text' = d
    /\ pc' = "parse_call"
    /\ UNCHANGED <<exc, parser_vars, ai_suggestions, issue_idx,
                   github_comments, commits, reviews, audit_result>>

\* A call to the hosting API raises (app.py:124-142, 155, 162).
GithubRaises ==
    /\ pc \in {"connect", "fetch", "commits"}
    /\ pc' = "raised"
    /\ exc' = "github"
    /\ UNCHANGED <<parser_vars, review_vars>>

\* positions_map = parse_diff_to_positions(diff_text) (app.py:145).
ParseDiff ==
    /\ pc = "parse_call"
    /\ LET st == parse_diff_to_positions(diff_text) IN
       /\ pc' = IF st.raised THEN "raised" ELSE "map"
       /\ exc' = IF st.raised THEN "parse_diff_to_positions" ELSE exc
       /\ positions_map' = IF st.raised THEN positions_map ELSE st.positions_map
    /\ UNCHANGED <<line, n, current_file, diff_position, start_line, log,
                   section, headed, hunked, hunk, review_vars>>

\* One iteration of the loop of map_ai_response_to_github_format (app.py:148).
MapStep ==
    /\ pc = "map"
    /\ issue_idx < Len(ai_suggestions)
    /\ LET r == MapIssue(github_comments, ai_suggestions[issue_idx + 1],
                         positions_map) IN
       /\ pc' = IF r.raised THEN "raised" ELSE "map"
       /\ exc' = IF r.raised THEN "map_ai_response_to_github_format" ELSE exc
       /\ github_comments' = r.out
    /\ issue_idx' = issue_idx + 1
    /\ UNCHANGED <<parser_vars, diff_text, ai_suggestions, commits, reviews,
                   audit_result>>

\* Variant of NoComments: the empty result is not detected.
NoCommentsMutant(cs) == FALSE

\* `if not github_comments` (app.py:150)
NoComments(cs) == cs = <<>>

\* `return github_comments`, then the check for an empty result
\* (app.py:110, 150-152).
CheckComments ==
    /\ pc = "map"
    /\ issue_idx = Len(ai_suggestions)
    /\ pc' = IF NoComments(github_comments) THEN "returned" ELSE "commits"
    /\ UNCHANGED <<exc, parser_vars, review_vars>>

\* commits = list(pr.get_commits()), then the check for none (app.py:155-159).
GetCommits ==
    /\ pc = "commits"
    /\ \E cs \in CommitLists :
         /\ commits' = cs
         /\ pc' = IF cs = <<>> THEN "returned" ELSE "review"
    /\ UNCHANGED <<exc, parser_vars, diff_text, ai_suggestions, issue_idx,
                   github_comments, reviews, audit_result>>

\* pr.create_review(...), which returns or raises (app.py:162-169).
CreateReview ==
    /\ pc = "review"
    /\ reviews' = reviews + 1
    /\ \E ok \in BOOLEAN :
         /\ pc' = IF ok THEN "returned" ELSE "raised"
         /\ exc' = IF ok THEN exc ELSE "github"
    /\ UNCHANGED <<parser_vars, diff_text, ai_suggestions, issue_idx,
                   github_comments, commits, audit_result>>

\* run_pr_audit returns True, or False on any exception (integration.py:26-39).
AuditReturn ==
    /\ pc \in {"returned", "raised"}
    /\ audit_result = <<>>
    /\ audit_result' = <<pc = "returned">>
    /\ UNCHANGED <<pc, exc, parser_vars, diff_text, ai_suggestions, issue_idx,
                   github_comments, commits, reviews>>

NextReview ==
    \/ Connect
    \/ FetchDiff
    \/ GithubRaises
    \/ ParseDiff
    \/ MapStep
    \/ CheckComments
    \/ GetCommits
    \/ CreateReview
    \/ AuditReturn

SpecReview == InitReview /\ [][NextReview]_vars

---------------------------------------------------------------------------
(* Claims about parse_diff_to_positions, checked under Spec.               *)

\* C1: the positions assigned to one file's added and context lines, in
\* diff order across the hunks of the file's section, are strictly
\* increasing: the position does not restart between two hunks.
C1_PositionsIncreaseAcrossHunks ==
    \A i, j \in 1..Len(log) :
        (i < j /\ log[i].file = log[j].file /\ log[i].hk /\ log[j].hk)
            => log[i].pos < log[j].pos

\* C2: parse_diff_to_positions never raises, whatever the diff text.
C2_ParseNeverRaises == exc # "parse_diff_to_positions"

\* C4: a line that begins with '-' records no entry and does not advance the
\* new-file line counter; where the loop counts lines (a current file is
\* set) it advances the position counter by one.
C4_DeletedLineRecordsNothing ==
    [][(n' = n + 1 /\ FirstChar(line') = "-")
         => /\ positions_map' = positions_map
            /\ start_line' = start_line
            /\ log' = log
            /\ current_file # <<>> => diff_position' = diff_position + 1]_vars

\* A deleted line was read after a context line of a hunk: one entry, two
\* positions consumed.
C4_Witness ==
    /\ line = Deleted
    /\ current_file = <<"f.py">>
    /\ hunk # <<>>
    /\ diff_position = 2
    /\ start_line = 2
    /\ DOMAIN positions_map["f.py"] = {1}

\* C8: in a hunk whose header declares new-file start s, the body lines that
\* begin with '+', '-' or a space are counted from 1, and the j-th added or
\* context line, being the k-th counted line, is recorded as
\* index[F][s + j - 1] = k.
C8_HunkLinePosition ==
    (hunk # <<>> /\ current_file # <<>>)
        => /\ diff_position = hunk[1].k
           /\ start_line = hunk[1].s + hunk[1].j
           /\ (line # "" /\ FirstChar(line) \in {"+", " "})
                 => LET key == hunk[1].s + hunk[1].j - 1
                        f   == current_file[1]
                    IN  /\ key \in DOMAIN positions_map[f]
                        /\ positions_map[f][key] = hunk[1].k

\* The sample hunk: '+5,11', three context lines, a deletion, an addition.
C8_Witness ==
    /\ current_file = <<"f.py">>
    /\ hunk = <<[s |-> 5, j |-> 4, k |-> 5]>>
    /\ line = Added
    /\ positions_map["f.py"] = (5 :> 1) @@ (6 :> 2) @@ (7 :> 3) @@ (8 :> 5)

\* C10: a path is a key of the index only if a hunk of that file was parsed.
C10_FileKeyOnlyWithHunk == \A f \in DOMAIN positions_map : f \in hunked

\* C10, amended: a path is a key of the index only if a file header naming
\* it as post-image path was read, whether or not a hunk followed.
C10_FileKeyOnlyWithHeader == \A f \in DOMAIN positions_map : f \in headed

\* A section with a hunk, then a section that is a file header alone.
C10_Witness ==
    /\ pc = "returned"
    /\ line = HeaderG
    /\ hunked = {"f.py"}
    /\ DOMAIN positions_map = {"f.py", "g.py"}
    /\ positions_map["g.py"] = EmptyDict

\* C11: the new-file line numbers recorded for one file are strictly
\* increasing in the order their diff lines are processed, across the hunks
\* of the file's section: no line number is recorded twice and no entry is
\* overwritten by a later hunk.
C11_LineNumbersIncreaseAcrossHunks ==
    \A i, j \in 1..Len(log) :
        (i < j /\ log[i].file = log[j].file /\ log[i].hk /\ log[j].hk)
            => log[i].line < log[j].line

\* C12: a malformed hunk header (a line starting with '@@' that has fewer
\* than three space-separated fields, or whose line-number field is no
\* number) leaves the new-file line counter, the position counter and the
\* index as they were.
C12_MalformedHunkHeaderKeepsCounters ==
    [][(n' = n + 1 /\ line' \in {HunkShort, HunkBad})
         => /\ start_line' = start_line
            /\ diff_position' = diff_position
            /\ positions_map' = positions_map]_vars

\* C13: a file header registers an empty inner mapping for its post-image
\* path only if the path is absent from the index, keeps the entries already
\* recorded for the path, and resets the position counter to 0.
C13_FileHeaderKeepsEntries ==
    [][(n' = n + 1 /\ line' \in DOMAIN HeaderPath)
         => LET p == HeaderPath[line'] IN
            /\ p \in DOMAIN positions_map'
            /\ p \in DOMAIN positions_map => positions_map'[p] = positions_map[p]
            /\ p \notin DOMAIN positions_map => positions_map'[p] = EmptyDict
            /\ diff_position' = 0]_vars

\* C14: an entry is recorded under a file only by a body line of that file's
\* own section, after the header naming it and before the next 'diff --git'
\* line: after a 'diff --git' line that names no path, and before the first
\* file header, nothing is recorded.
C14_EntriesFromOwnSection ==
    [][(n' = n + 1 /\ ~IsFileHeaderLine(line'))
         => \A f \in DOMAIN positions_map :
                positions_map'[f] # positions_map[f] => section' = <<f>>]_vars

---------------------------------------------------------------------------
(* Claims about the index and the translation, checked under SpecReview.   *)

\* C3: map_ai_response_to_github_format never raises, whatever the fields of
\* the findings hold, and returns no more records than it was given findings.
C3_TranslateNeverRaises ==
    /\ exc # "map_ai_response_to_github_format"
    /\ Len(github_comments) <= Len(ai_suggestions)

\* C5: every key of an inner mapping is a new-file line number >= 1 and every
\* value a position >= 1, also for a diff with '--- a/path' and '+++ b/path'
\* lines between the file header and the first hunk header.
C5_KeysAndValuesPositive ==
    \A f \in DOMAIN positions_map :
        \A k \in DOMAIN positions_map[f] : k >= 1 /\ positions_map[f][k] >= 1

\* The findings the translation loop has consumed whose file_path is a key of
\* the index and whose line_number is a key of that file's inner mapping.
Surviving ==
    LET Mapped(f) ==
            /\ "file_path" \in DOMAIN f
            /\ f["file_path"].t = "str"
            /\ f["file_path"].v \in DOMAIN positions_map
            /\ "line_number" \in DOMAIN f
            /\ f["line_number"].t = "int"
            /\ f["line_number"].v \in DOMAIN positions_map[f["file_path"].v]
    IN  SelectSeq(SubSeq(ai_suggestions, 1, issue_idx), Mapped)

Translating == pc \in {"map", "commits", "review", "returned"} /\ exc = ""

\* C6: the returned list corresponds one-to-one, in order, to exactly the
\* findings whose file and line are in the index; the others are dropped and
\* nothing is deduplicated.
C6_OutputMatchesSurvivors ==
    Translating =>
        /\ Len(github_comments) = Len(Surviving)
        /\ \A i \in 1..Len(Surviving) :
             LET f == Surviving[i] IN
             /\ github_comments[i].path = f["file_path"].v
             /\ github_comments[i].position =
                    positions_map[f["file_path"].v][f["line_number"].v]

\* Two findings at the same place were both translated.
C6_Witness ==
    /\ pc = "returned"
    /\ exc = ""
    /\ diff_text = SampleDiff
    /\ Len(ai_suggestions) = 2
    /\ Len(github_comments) = 2
    /\ github_comments[1].path = github_comments[2].path
    /\ github_comments[1].position = github_comments[2].position

\* The severity tag of a comment body, per severity.
SeverityTag == ("error" :> "**[ERROR]** ") @@ ("info" :> "**[INFO]** ")

C9_ReviewOnlyAfterTranslation ==
    /\ [](reviews <= 1)
    /\ [](reviews = 1 =>
            /\ positions_map = parse_diff_to_positions(diff_text).positions_map
            /\ issue_idx = Len(ai_suggestions)
            /\ github_comments # <<>>
            /\ Len(github_comments) = Len(Surviving)
            /\ commits # <<>>)
    /\ [][(/\ pc = "map"
           /\ issue_idx = Len(ai_suggestions)
           /\ github_comments = <<>>
           /\ pc' # pc)
             => (pc' = "returned" /\ exc' = "" /\ reviews' = 0)]_vars
    /\ [][(pc = "commits" /\ pc' # pc /\ commits' = <<>>)
             => (pc' \in {"returned", "raised"} /\ reviews' = 0)]_vars

\* Two findings, none of them in the sample diff: returned, nothing submitted.
C9_Witness ==
    /\ pc = "returned"
    /\ exc = ""
    /\ diff_text = SampleDiff
    /\ Len(ai_suggestions) = 2
    /\ issue_idx = 2
    /\ github_comments = <<>>
    /\ reviews = 0

=============================================================================
